---- MODULE Spec2Model ----
(***************************************************************************)
(* Model of the market-maker polling program (src/main.cpp): the loop      *)
(* thread MarketMaker::run, the response parsing of updateMarketPrice, and *)
(* the control thread in main that requests stop and joins.                *)
(*                                                                         *)
(* Text is a sequence of one-character strings.  Positions are 0-based as  *)
(* in std::string, NPOS stands for std::string::npos.  A double is an      *)
(* integer number of hundredths (1.50 is 150).  Time is counted in whole   *)
(* seconds of std::this_thread::sleep_for.                                 *)
(***************************************************************************)
EXTENDS Integers, Sequences, FiniteSets, TLC

----------------------------------------------------------------------------
(* Bounds of the model *)

\* the loop starts no new poll once this many cycles have succeeded
MaxCycle == 7
\* the loop starts no new poll once this many polls in a row gave no data
MaxNoData == 2
\* longest text over TextAlphabet handed to the extractor on its own
MaxTextLen == 7
\* largest small mid price, in cents, and largest spread, in basis points
MaxMidCents == 4
MaxBps == 6
\* measured durations go up to this many tenths of a second
MaxTenths == 6

----------------------------------------------------------------------------
(* Program constants *)

NPOS == -1
\* sleep_for(seconds(5)) after a cycle without data
RecoverySeconds == 5
\* wait_time with the demo key and with any other key
DemoWaitSeconds == 15
CustomWaitSeconds == 12
\* cycle > 5 in the demo-key advisory
AdvisoryThreshold == 5
\* the divisor of spread_bps in spread_factor
BpsScale == 10000
\* the limits of FAST and of MODERATE, in microseconds
FastLimit == 100000
ModerateLimit == 500000
\* Portfolio::cash and Portfolio::shares initial values
InitialCash == 1000000
InitialShares == 0

----------------------------------------------------------------------------
(* std::string operations used by updateMarketPrice *)

SetMin(S) == CHOOSE x \in S : \A y \in S : x <= y

\* s.find(pat, pos): the first 0-based position >= pos where pat occurs
Find(s, pat, pos) ==
    LET hits == { i \in pos .. (Len(s) - Len(pat)) :
                    \A j \in 1 .. Len(pat) : s[i + j] = pat[j] }
    IN  IF hits = {} THEN NPOS ELSE SetMin(hits)

\* variant: the count is one too large, the closing quote is taken along
Substr_OneMore(s, pos, n) ==
    LET m == IF pos + n + 1 > Len(s) THEN Len(s) - pos ELSE n + 1
    IN  SubSeq(s, pos + 1, pos + m)

\* s.substr(pos, n) for pos <= size; n is clamped to what is left
Substr(s, pos, n) ==
    LET m == IF pos + n > Len(s) THEN Len(s) - pos ELSE n
    IN  SubSeq(s, pos + 1, pos + m)

Quote == <<"\"">>
Colon == <<":">>

\* variant: the opening quote is looked for right after the key, not from the colon
ExtractQuotedValue_QuoteBeforeColon(response, key) ==
    LET quotedKey == Quote \o key \o Quote
        keyPos == Find(response, quotedKey, 0)
    IN  IF keyPos = NPOS THEN <<>> ELSE
        LET colonPos == Find(response, Colon, keyPos + Len(quotedKey))
        IN  IF colonPos = NPOS THEN <<>> ELSE
            LET firstQuote == Find(response, Quote, keyPos + Len(quotedKey))
            IN  IF firstQuote = NPOS THEN <<>> ELSE
                LET secondQuote == Find(response, Quote, firstQuote + 1)
                IN  IF secondQuote = NPOS THEN <<>> ELSE
                    Substr(response, firstQuote + 1, secondQuote - firstQuote - 1)

\* the lambda extractQuotedValue; "" (the empty text) is its not-found value
ExtractQuotedValue(response, key) ==
    LET quotedKey == Quote \o key \o Quote
        keyPos == Find(response, quotedKey, 0)
    IN  IF keyPos = NPOS THEN <<>> ELSE
        LET colonPos == Find(response, Colon, keyPos + Len(quotedKey))
        IN  IF colonPos = NPOS THEN <<>> ELSE
            LET firstQuote == Find(response, Quote, colonPos)
            IN  IF firstQuote = NPOS THEN <<>> ELSE
                LET secondQuote == Find(response, Quote, firstQuote + 1)
                IN  IF secondQuote = NPOS THEN <<>> ELSE
                    Substr(response, firstQuote + 1, secondQuote - firstQuote - 1)

----------------------------------------------------------------------------
(* std::stod on the decimal forms the inputs use: leading white space, an  *)
(* optional sign, digits, an optional point and fraction digits; parsing   *)
(* stops at the first other character; no digit at all throws.             *)

Digits == {"0", "1", "2", "3", "4", "5", "6", "7", "8", "9"}
Spaces == {" ", "\t", "\n", "\r"}

DigitVal(c) ==
    CASE c = "0" -> 0 [] c = "1" -> 1 [] c = "2" -> 2 [] c = "3" -> 3
      [] c = "4" -> 4 [] c = "5" -> 5 [] c = "6" -> 6 [] c = "7" -> 7
      [] c = "8" -> 8 [] c = "9" -> 9

\* the first 1-based index >= i whose character is not in S (Len+1 if none)
SkipWhile(s, i, S) ==
    LET stops == { k \in i .. Len(s) : s[k] \notin S }
    IN  IF stops = {} THEN Len(s) + 1 ELSE SetMin(stops)

RECURSIVE DigitsValue(_, _, _)
\* value of the digit run s[i..j-1]
DigitsValue(s, i, j) ==
    IF j <= i THEN 0 ELSE 10 * DigitsValue(s, i, j - 1) + DigitVal(s[j - 1])

\* [ok |-> conversion performed, val |-> the number in hundredths]
Stod(s) ==
    LET b == SkipWhile(s, 1, Spaces)
        signed == b <= Len(s) /\ s[b] \in {"+", "-"}
        neg == signed /\ s[b] = "-"
        i0 == IF signed THEN b + 1 ELSE b
        i1 == SkipWhile(s, i0, Digits)
        point == i1 <= Len(s) /\ s[i1] = "."
        f0 == IF point THEN i1 + 1 ELSE i1
        f1 == IF point THEN SkipWhile(s, f0, Digits) ELSE f0
        tenths == IF f1 > f0 THEN DigitVal(s[f0]) ELSE 0
        hundredths == IF f1 > f0 + 1 THEN DigitVal(s[f0 + 1]) ELSE 0
        mag == 100 * DigitsValue(s, i0, i1) + 10 * tenths + hundredths
    IN  IF i1 = i0 /\ f1 = f0
        THEN [ok |-> FALSE, val |-> 0]
        ELSE [ok |-> TRUE, val |-> IF neg THEN 0 - mag ELSE mag]

----------------------------------------------------------------------------
(* Texts of the program and of the data source *)

KeyPrice == <<"0", "5", ".", " ", "p", "r", "i", "c", "e">>
KeyLow == <<"0", "4", ".", " ", "l", "o", "w">>
KeyHigh == <<"0", "3", ".", " ", "h", "i", "g", "h">>
MarkError == <<"E", "r", "r", "o", "r", " ", "M", "e", "s", "s", "a", "g", "e">>
MarkNote == <<"N", "o", "t", "e">>

----------------------------------------------------------------------------
(* Bodies the data source can send.  A field is "key": "value"; Absent     *)
(* leaves the field out.                                                   *)

Absent == <<"absent">>
Field(key, val) ==
    IF val = Absent THEN <<>>
    ELSE Quote \o key \o Quote \o <<":", " ">> \o Quote \o val \o Quote \o <<",">>

\* { "03. high": h, "04. low": l, "05. price": p, }
QuoteBody(h, l, p) ==
    <<"{">> \o Field(KeyHigh, h) \o Field(KeyLow, l) \o Field(KeyPrice, p) \o <<"}">>

\* { "Note": "x", ... } and { "Error Message": "x", ... }
MarkedBody(mark, p) ==
    <<"{">> \o Field(mark, <<"x">>) \o Field(KeyPrice, p) \o <<"}">>

GoodPrices == { <<"2", ".", "5">> }
NonPositivePrices == { <<"0">>, <<"-", "1">> }
BadPrices == { Absent, <<>>, <<"x">> }
LowValues == { Absent, <<"x">>, <<"1">> }
HighValues == { Absent, <<"3">> }

\* bodies whose price field converts
PricedBodies ==
    { QuoteBody(h, l, p) : h \in HighValues, l \in LowValues, p \in GoodPrices }
      \cup { QuoteBody(Absent, <<"1">>, p) : p \in NonPositivePrices }
\* bodies whose price field is missing, empty or not a number
UnpricedBodies ==
    { QuoteBody(Absent, Absent, p) : p \in BadPrices }
      \cup { MarkedBody(m, p) : m \in {MarkError, MarkNote}, p \in BadPrices }
\* the empty body, also what httpGet returns on a transport failure
EmptyBody == <<>>

Bodies == PricedBodies \cup UnpricedBodies \cup {EmptyBody}

----------------------------------------------------------------------------
(* State *)

VARIABLES
    running,      \* MarketMaker::running
    api_key,      \* MarketMaker::api_key, set from argv before the loop starts
    last_price,   \* MarketMaker::last_price
    bid_price,    \* MarketMaker::bid_price, the day low shown as Market BID
    ask_price,    \* MarketMaker::ask_price, the day high shown as Market ASK
    cycle,        \* the local cycle of run
    pc,           \* where the loop thread is
    sleepLeft,    \* seconds left of the sleep_for the loop thread is in
    response,     \* the text updateMarketPrice worked on, until run acts on the result
    success,      \* the local success of run
    diag,         \* what updateMarketPrice wrote to std::cerr, until run acts on the result
    advisory,     \* whether this iteration printed the demo-key advisory
    shown,        \* what displayStats and displayOrderBook printed in this iteration
    ctl,          \* where the control thread (main) is
    cash,         \* Portfolio::cash
    shares,       \* Portfolio::shares
    noDataRun,    \* history: polls in a row that gave no data
    sinceStop,    \* history: sleep seconds elapsed since running became false
    okCount,      \* history: calls of updateMarketPrice that returned true
    stopAt,       \* history: where the loop thread was when stop was called
    inFlight,     \* history: calls of httpGet that have not returned
    lateFetches,  \* history: calls of httpGet begun after running became false
    sleeps,       \* history: sleeps begun since the last fetch returned
    endingBalance, \* the amount on the ending balance line, NoBalance before it
    call,         \* a function applied on its own: its name and arguments
    ret           \* what that function returned

vars == << running, api_key, last_price, bid_price, ask_price, cycle, pc,
           sleepLeft, response, success, diag, advisory, shown, ctl, cash,
           shares, noDataRun, sinceStop, okCount, stopAt, inFlight,
           lateFetches, sleeps, endingBalance, call, ret >>

market == << last_price, bid_price, ask_price >>
portfolio == << cash, shares >>
history == << noDataRun, sinceStop, okCount, stopAt >>
trace == << inFlight, lateFetches, sleeps, endingBalance >>
pure == << call, ret >>

\* argv[2]; the member is the empty string when no key is given
ApiKeys == {"", "demo"}
SleepStates == {"sleepOk", "sleepNoData"}
LoopStates == {"idle", "check", "checked", "polling", "reporting", "nodata",
               "stopped"}
                 \cup SleepStates
CtlStates == {"waitKey", "stopCall", "join", "final", "exited"}
Diags == {"None", "HttpError", "ApiError", "UnexpectedFormat", "ParseFailure"}
NoReport == [cycle |-> 0, mid |-> 0, low |-> 0, high |-> 0]
NoBalance == -1
NoCall == [fn |-> "none"]

\* the program after main has constructed mm and portfolio and started runner
ProgramInit ==
    /\ running = TRUE
    /\ api_key \in ApiKeys
    /\ last_price = 0
    /\ bid_price = 0
    /\ ask_price = 0
    /\ cycle = 0
    /\ pc = "idle"
    /\ sleepLeft = 0
    /\ response = <<>>
    /\ success = FALSE
    /\ diag = "None"
    /\ advisory = FALSE
    /\ shown = NoReport
    /\ ctl = "waitKey"
    /\ cash = InitialCash
    /\ shares = InitialShares
    /\ noDataRun = 0
    /\ sinceStop = 0
    /\ okCount = 0
    /\ stopAt = "none"
    /\ inFlight = 0
    /\ lateFetches = 0
    /\ sleeps = 0
    /\ endingBalance = NoBalance

Init ==
    /\ ProgramInit
    /\ call = NoCall
    /\ ret = NoCall

----------------------------------------------------------------------------
(* updateMarketPrice *)

\* httpGet: the body, or "" when curl_easy_perform did not return CURLE_OK
HttpGet(ok, body) == IF ok THEN body ELSE <<>>

Contains(s, pat) == Find(s, pat, 0) # NPOS

\* variant: the rate-limit marker "Note" is not looked for
Classify_NoNote(resp) ==
    IF Contains(resp, MarkError) THEN "ApiError" ELSE "UnexpectedFormat"

\* the branch taken when priceStr is empty
Classify(resp) ==
    IF Contains(resp, MarkError) \/ Contains(resp, MarkNote)
    THEN "ApiError" ELSE "UnexpectedFormat"

\* try { field = std::stod(str); } catch(...) {} guarded by !str.empty()
NewSecondary(resp, key, old) ==
    LET str == ExtractQuotedValue(resp, key)
    IN  IF str = <<>> THEN old
        ELSE IF Stod(str).ok THEN Stod(str).val ELSE old

\* variant: a day low that does not convert fails the call like a bad price
UpdateResult_LowFatal(resp, last, bid, ask) ==
    IF resp = <<>>
    THEN [ret |-> FALSE, diag |-> "None", last |-> last, bid |-> bid, ask |-> ask]
    ELSE
    LET priceStr == ExtractQuotedValue(resp, KeyPrice)
        lowStr == ExtractQuotedValue(resp, KeyLow)
    IN
    IF priceStr = <<>>
    THEN [ret |-> FALSE, diag |-> Classify(resp),
          last |-> last, bid |-> bid, ask |-> ask]
    ELSE IF ~Stod(priceStr).ok
    THEN [ret |-> FALSE, diag |-> "ParseFailure",
          last |-> last, bid |-> bid, ask |-> ask]
    ELSE IF lowStr # <<>> /\ ~Stod(lowStr).ok
    THEN [ret |-> FALSE, diag |-> "ParseFailure",
          last |-> Stod(priceStr).val, bid |-> bid, ask |-> ask]
    ELSE [ret |-> TRUE, diag |-> "None",
          last |-> Stod(priceStr).val,
          bid |-> NewSecondary(resp, KeyLow, bid),
          ask |-> NewSecondary(resp, KeyHigh, ask)]

\* updateMarketPrice on the text httpGet returned: the return value, what
\* went to std::cerr, and the three price fields afterwards
UpdateResult(resp, last, bid, ask) ==
    IF resp = <<>>
    THEN [ret |-> FALSE, diag |-> "None", last |-> last, bid |-> bid, ask |-> ask]
    ELSE
    LET priceStr == ExtractQuotedValue(resp, KeyPrice) IN
    IF priceStr = <<>>
    THEN [ret |-> FALSE, diag |-> Classify(resp),
          last |-> last, bid |-> bid, ask |-> ask]
    ELSE IF ~Stod(priceStr).ok
    THEN [ret |-> FALSE, diag |-> "ParseFailure",
          last |-> last, bid |-> bid, ask |-> ask]
    ELSE [ret |-> TRUE, diag |-> "None",
          last |-> Stod(priceStr).val,
          bid |-> NewSecondary(resp, KeyLow, bid),
          ask |-> NewSecondary(resp, KeyHigh, ask)]

\* the fetch returns and updateMarketPrice runs to its return
UpdateMarketPrice(ok, body) ==
    /\ pc = "polling"
    /\ LET resp == HttpGet(ok, body)
           res == UpdateResult(resp, last_price, bid_price, ask_price)
       IN
        /\ response' = resp
        /\ success' = res.ret
        /\ diag' = IF ok THEN res.diag ELSE "HttpError"
        /\ last_price' = res.last
        /\ bid_price' = res.bid
        /\ ask_price' = res.ask
        /\ okCount' = IF res.ret THEN okCount + 1 ELSE okCount
        /\ pc' = IF res.ret THEN "reporting" ELSE "nodata"
    /\ inFlight' = inFlight - 1
    /\ sleeps' = 0
    /\ UNCHANGED << pure, lateFetches, endingBalance, running, api_key, cycle,
                    sleepLeft, advisory, shown, ctl, portfolio, noDataRun,
                    sinceStop, stopAt >>

----------------------------------------------------------------------------
(* MarketMaker::run *)

\* the banner and configuration lines before the loop
RunStart ==
    /\ pc = "idle"
    /\ pc' = "check"
    /\ UNCHANGED << pure, trace, running, api_key, market, cycle, sleepLeft,
                    response, success, diag, advisory, shown, ctl, portfolio,
                    history >>

\* variants: the condition inverted, and a loop without a stop condition
LoopCond_Inverted(r) == ~r
LoopCond_Forever(r) == TRUE

\* the condition of while(running)
LoopCond(r) == r

\* while(running): leave the loop, or enter the body and take the start time
LoopCheck ==
    /\ pc = "check"
    /\ IF LoopCond(running)
       THEN /\ cycle < MaxCycle
            /\ noDataRun < MaxNoData
            /\ pc' = "checked"
       ELSE pc' = "stopped"
    /\ success' = FALSE
    /\ advisory' = FALSE
    /\ shown' = NoReport
    /\ UNCHANGED << pure, trace, running, api_key, market, cycle, sleepLeft,
                    response, diag, ctl, portfolio, history >>

\* variant: the request is sent and the caller goes on without its result
StartFetch_NoWait ==
    /\ pc = "checked"
    /\ inFlight' = inFlight + 1
    /\ lateFetches' = IF running THEN lateFetches ELSE lateFetches + 1
    /\ pc' = "nodata"
    /\ UNCHANGED << pure, sleeps, endingBalance, running, api_key, market,
                    cycle, sleepLeft, response, success, diag, advisory,
                    shown, ctl, portfolio, history >>

\* updateMarketPrice builds the url and calls httpGet, which blocks
StartFetch ==
    /\ pc = "checked"
    /\ inFlight' = inFlight + 1
    /\ lateFetches' = IF running THEN lateFetches ELSE lateFetches + 1
    /\ pc' = "polling"
    /\ UNCHANGED << pure, sleeps, endingBalance, running, api_key, market,
                    cycle, sleepLeft, response, success, diag, advisory,
                    shown, ctl, portfolio, history >>

\* variant: cycle++ placed before if(!success)
CycleAfter_Early(c, ok) == c + 1

\* cycle after the statements from if(!success) to cycle++
CycleAfter(c, ok) == IF ok THEN c + 1 ELSE c

\* the condition of the demo-key advisory
AdvisoryDue(key, c) == key = "demo" /\ c > AdvisoryThreshold

\* if(!success): the notice, the advisory, the start of the recovery sleep
NoData ==
    /\ pc = "nodata"
    /\ cycle' = CycleAfter(cycle, success)
    /\ advisory' = AdvisoryDue(api_key, cycle)
    /\ sleepLeft' = RecoverySeconds
    /\ noDataRun' = noDataRun + 1
    /\ response' = <<>>
    /\ diag' = "None"
    /\ pc' = "sleepNoData"
    /\ sleeps' = sleeps + 1
    /\ UNCHANGED << pure, inFlight, lateFetches, endingBalance, running,
                    api_key, market, success, shown, ctl, portfolio,
                    sinceStop, okCount, stopAt >>

\* variant: the two waits swapped
WaitTime_Swapped(key) == IF key = "demo" THEN CustomWaitSeconds ELSE DemoWaitSeconds

\* wait_time
WaitTime(key) == IF key = "demo" THEN DemoWaitSeconds ELSE CustomWaitSeconds

\* displayStats and displayOrderBook print nothing when mid <= 0
Report(c, mid, low, high) ==
    IF mid <= 0 THEN NoReport
    ELSE [cycle |-> c, mid |-> mid, low |-> low, high |-> high]

\* variant: an order is placed where the loop body says orders would go
Reporting_Trades ==
    /\ pc = "reporting"
    /\ cycle' = CycleAfter(cycle, success)
    /\ shown' = Report(cycle', last_price, bid_price, ask_price)
    /\ sleepLeft' = WaitTime(api_key)
    /\ noDataRun' = 0
    /\ response' = <<>>
    /\ diag' = "None"
    /\ pc' = "sleepOk"
    /\ sleeps' = sleeps + 1
    /\ cash' = cash - last_price
    /\ UNCHANGED << pure, inFlight, lateFetches, endingBalance, running,
                    api_key, market, success, advisory, ctl, shares,
                    sinceStop, okCount, stopAt >>

\* cycle++, the reports, the start of the inter-cycle sleep
Reporting ==
    /\ pc = "reporting"
    /\ cycle' = CycleAfter(cycle, success)
    /\ shown' = Report(cycle', last_price, bid_price, ask_price)
    /\ sleepLeft' = WaitTime(api_key)
    /\ noDataRun' = 0
    /\ response' = <<>>
    /\ diag' = "None"
    /\ pc' = "sleepOk"
    /\ sleeps' = sleeps + 1
    /\ UNCHANGED << pure, inFlight, lateFetches, endingBalance, running,
                    api_key, market, success, advisory, ctl, portfolio,
                    sinceStop, okCount, stopAt >>

\* one second of sleep_for passes
SleepTick ==
    /\ pc \in SleepStates
    /\ sleepLeft > 0
    /\ sleepLeft' = sleepLeft - 1
    /\ sinceStop' = IF running THEN sinceStop ELSE sinceStop + 1
    /\ UNCHANGED << pure, trace, running, api_key, market, cycle, pc,
                    response, success, diag, advisory, shown, ctl, portfolio,
                    noDataRun, okCount, stopAt >>

\* variant: after the sleep the body is entered again without the test of running
SleepReturn_SkipCheck ==
    /\ pc \in SleepStates
    /\ sleepLeft = 0
    /\ pc' = "checked"
    /\ UNCHANGED << pure, trace, running, api_key, market, cycle, sleepLeft,
                    response, success, diag, advisory, shown, ctl, portfolio,
                    history >>

\* sleep_for returns; continue, or the end of the loop body
SleepReturn ==
    /\ pc \in SleepStates
    /\ sleepLeft = 0
    /\ pc' = "check"
    /\ UNCHANGED << pure, trace, running, api_key, market, cycle, sleepLeft,
                    response, success, diag, advisory, shown, ctl, portfolio,
                    history >>

----------------------------------------------------------------------------
(* main, after the loop thread was started *)

\* std::cin.get() returns
KeyPressed ==
    /\ ctl = "waitKey"
    /\ ctl' = "stopCall"
    /\ UNCHANGED << pure, trace, running, api_key, market, cycle, pc,
                    sleepLeft, response, success, diag, advisory, shown,
                    portfolio, history >>

\* variant: stop toggles the flag
StopValue_Toggle(r) == ~r

\* the body of MarketMaker::stop
StopValue(r) == FALSE

\* mm.stop()
Stop ==
    /\ ctl = "stopCall"
    /\ running' = StopValue(running)
    /\ stopAt' = pc
    /\ ctl' = "join"
    /\ UNCHANGED << pure, trace, api_key, market, cycle, pc, sleepLeft,
                    response, success, diag, advisory, shown, portfolio,
                    noDataRun, sinceStop, okCount >>

\* variant: main goes on without waiting for run to return
Join_NoWait ==
    /\ ctl = "join"
    /\ ctl' = "final"
    /\ UNCHANGED << pure, trace, running, api_key, market, cycle, pc,
                    sleepLeft, response, success, diag, advisory, shown,
                    portfolio, history >>

\* runner.join() returns once run has returned
Join ==
    /\ ctl = "join"
    /\ pc = "stopped"
    /\ ctl' = "final"
    /\ UNCHANGED << pure, trace, running, api_key, market, cycle, pc,
                    sleepLeft, response, success, diag, advisory, shown,
                    portfolio, history >>

\* curl_global_cleanup, the ending balance line, return 0
Exit ==
    /\ ctl = "final"
    /\ ctl' = "exited"
    /\ endingBalance' = cash
    /\ UNCHANGED << pure, inFlight, lateFetches, sleeps, running, api_key,
                    market, cycle, pc, sleepLeft, response, success, diag,
                    advisory, shown, portfolio, history >>

----------------------------------------------------------------------------

Next ==
    \/ RunStart
    \/ LoopCheck
    \/ StartFetch
    \/ \E ok \in BOOLEAN, body \in Bodies : UpdateMarketPrice(ok, body)
    \/ NoData
    \/ Reporting
    \/ SleepTick
    \/ SleepReturn
    \/ KeyPressed
    \/ Stop
    \/ Join
    \/ Exit

Spec == Init /\ [][Next]_vars

\* the loop thread keeps running, every fetch returns, every sleep elapses,
\* and main proceeds once the key was pressed
LoopStep ==
    \/ RunStart
    \/ LoopCheck
    \/ StartFetch
    \/ \E ok \in BOOLEAN, body \in Bodies : UpdateMarketPrice(ok, body)
    \/ NoData
    \/ Reporting
    \/ SleepTick
    \/ SleepReturn

MainStep == Stop \/ Join \/ Exit

FairSpec == Spec /\ WF_vars(LoopStep) /\ WF_vars(MainStep)

TypeOK ==
    /\ running \in BOOLEAN
    /\ api_key \in ApiKeys
    /\ cycle \in 0 .. MaxCycle
    /\ pc \in LoopStates
    /\ sleepLeft \in 0 .. DemoWaitSeconds
    /\ success \in BOOLEAN
    /\ diag \in Diags
    /\ advisory \in BOOLEAN
    /\ ctl \in CtlStates
    /\ noDataRun \in 0 .. MaxNoData
    /\ okCount \in 0 .. MaxCycle
    /\ stopAt \in LoopStates \cup {"none"}
    /\ inFlight \in 0 .. 1
    /\ lateFetches \in 0 .. 1
    /\ sleeps \in 0 .. 1
    /\ endingBalance \in {NoBalance, InitialCash}

----------------------------------------------------------------------------
(* The functions of the program applied on their own to drawn arguments *)

program == << running, api_key, market, cycle, pc, sleepLeft, response, success,
             diag, advisory, shown, ctl, portfolio, history, trace >>

\* {"05. price": "123.45", "04. low": "120.00"}
QuoteExample ==
    <<"{">> \o Quote \o KeyPrice \o Quote \o <<":", " ">>
        \o Quote \o <<"1", "2", "3", ".", "4", "5">> \o Quote \o <<",", " ">>
        \o Quote \o KeyLow \o Quote \o <<":", " ">>
        \o Quote \o <<"1", "2", "0", ".", "0", "0">> \o Quote \o <<"}">>

WordPrice == <<"p", "r", "i", "c", "e">>
TextAlphabet == {"\"", ":", "k"}
SmallTexts == UNION { [1 .. n -> TextAlphabet] : n \in 0 .. MaxTextLen }
SmallKeys == { <<"k">>, <<"k", "k">> }

ExtractCalls ==
    [fn : {"extract"}, text : SmallTexts, key : SmallKeys]
      \cup [fn : {"extract"}, text : {QuoteExample, EmptyBody} \cup UnpricedBodies,
            key : {WordPrice, KeyPrice, KeyLow, KeyHigh}]

\* mid prices in cents
Mids == (-1 .. MaxMidCents) \cup {20000}
QuoteCalls ==
    [fn : {"quote"}, mid : Mids, bps : 0 .. MaxBps, size : {1, 100}]

\* durations in microseconds, around every tenth of a second
Durations ==
    { d \in { FastLimit * k + e : k \in 0 .. MaxTenths, e \in {-1, 0, 1} } : d >= 0 }
LatencyCalls == [fn : {"latency"}, d : Durations, key : ApiKeys]

\* variant: our_ask computed with the sign of our_bid
Quotation_SameSide(mid, bps, size) ==
    IF mid <= 0 THEN [ok |-> FALSE]
    ELSE [ok |-> TRUE,
          mid |-> mid * BpsScale,
          bid |-> mid * (BpsScale - bps),
          ask |-> mid * (BpsScale - bps),
          spread |-> 0,
          profit |-> 0]

\* the numbers of displayStats, money in 1/BpsScale of a cent:
\* spread_factor is bps / BpsScale, so mid * (1 - spread_factor) in that unit
\* is mid * (BpsScale - bps)
Quotation(mid, bps, size) ==
    IF mid <= 0 THEN [ok |-> FALSE]
    ELSE LET our_bid == mid * (BpsScale - bps)
             our_ask == mid * (BpsScale + bps)
             spread_dollars == our_ask - our_bid
         IN  [ok |-> TRUE,
              mid |-> mid * BpsScale,
              bid |-> our_bid,
              ask |-> our_ask,
              spread |-> spread_dollars,
              profit |-> spread_dollars * size]

\* variant: the limits are inclusive
LatencyStatus_Inclusive(d) ==
    IF d <= FastLimit THEN "FAST"
    ELSE IF d <= ModerateLimit THEN "MODERATE" ELSE "SLOW"

\* the Status line for duration.count() microseconds
LatencyStatus(d) ==
    IF d < FastLimit THEN "FAST"
    ELSE IF d < ModerateLimit THEN "MODERATE" ELSE "SLOW"

\* steps 2 to 5 of the loop body and the wait after them
AfterReport(key, d) ==
    [status |-> LatencyStatus(d), wait |-> WaitTime(key), next |-> "sleepOk"]

FnInit ==
    /\ ProgramInit
    /\ call \in ExtractCalls \cup QuoteCalls \cup LatencyCalls
    /\ ret = NoCall

ApplyExtract ==
    /\ call.fn = "extract"
    /\ ret = NoCall
    /\ ret' = [fn |-> "extract", value |-> ExtractQuotedValue(call.text, call.key)]
    /\ UNCHANGED << program, call >>

ApplyQuote ==
    /\ call.fn = "quote"
    /\ ret = NoCall
    /\ ret' = [fn |-> "quote", quote |-> Quotation(call.mid, call.bps, call.size)]
    /\ UNCHANGED << program, call >>

ApplyLatency ==
    /\ call.fn = "latency"
    /\ ret = NoCall
    /\ ret' = [fn |-> "latency", after |-> AfterReport(call.key, call.d)]
    /\ UNCHANGED << program, call >>

FnNext == ApplyExtract \/ ApplyQuote \/ ApplyLatency

FnSpec == FnInit /\ [][FnNext]_vars

----------------------------------------------------------------------------
(* Properties *)

\* the number the price field of resp converts to; meaningful when PriceParses
PriceField(resp) == Stod(ExtractQuotedValue(resp, KeyPrice))
PriceParses(resp) ==
    resp # <<>> /\ ExtractQuotedValue(resp, KeyPrice) # <<>> /\ PriceField(resp).ok
HasMarker(resp) == Contains(resp, MarkError) \/ Contains(resp, MarkNote)
\* the value a secondary field of resp alone gives: its number, or 0 for unknown
FreshField(resp, key) ==
    LET str == ExtractQuotedValue(resp, key)
    IN  IF str # <<>> /\ Stod(str).ok THEN Stod(str).val ELSE 0
\* a secondary field after a response: its number, or the old value kept
KeptOrParsed(resp, key, old) ==
    LET str == ExtractQuotedValue(resp, key)
    IN  IF str # <<>> /\ Stod(str).ok THEN Stod(str).val ELSE old
Parsed == pc \in {"reporting", "nodata"}

\* C1: a stop requested while the loop is in one of its two sleeps ends that
\* sleep within one sleep tick: the loop is never still asleep when more than
\* one second of sleep has passed since the stop.
C1_StopInterruptsSleep ==
    (pc \in SleepStates /\ stopAt \in SleepStates) => sinceStop <= 1

\* C2: cycle changes only by +1 and only in an iteration whose poll succeeded;
\* an iteration without data leaves it alone, so outside the report step cycle
\* equals the number of successful polls so far, and a printed report carries
\* that number.
C2_CycleCountsSuccesses ==
    /\ [](cycle = IF pc = "reporting" THEN okCount - 1 ELSE okCount)
    /\ [](shown # NoReport => shown.cycle = okCount)
    /\ [][cycle' # cycle => (cycle' = cycle + 1 /\ pc = "reporting" /\ success)]_vars
    /\ [][pc = "nodata" => cycle' = cycle]_vars
C2_Witness == pc = "sleepNoData" /\ cycle = 2 /\ okCount = 2 /\ noDataRun = 2

\* C3: the loop is in Stopped, and main is past the join, only when running is
\* false; no fetch result ends the loop while running is true.
C3_StoppedOnlyByStop ==
    (pc = "stopped" \/ ctl \in {"final", "exited"}) => ~running
C3_Witness == pc = "stopped" /\ noDataRun >= 2 /\ cycle >= 1

\* C4: once stop was requested the loop reaches Stopped and join returns,
\* whatever the loop was doing when stop was called.
C4_StopLeadsToJoin ==
    (~running) ~> (pc = "stopped" /\ ctl \in {"final", "exited"})
C4_Witness == ctl = "final" /\ stopAt = "sleepNoData" /\ pc = "stopped"

\* C5: running starts true, never goes from false to true, changes only in the
\* stop call of main, and a second stop would give the value the first gave.
C5_RunningMonotonic ==
    /\ [](stopAt = "none" => running)
    /\ [][running' => running]_vars
    /\ [][running' # running => (ctl = "stopCall" /\ ~running')]_vars
    /\ [](StopValue(StopValue(running)) = StopValue(running))
C5_Witness == ~running /\ ctl = "exited" /\ cycle >= 1

\* C6: a response whose price field converts to zero or a negative number does
\* not make a successful cycle: updateMarketPrice fails on it and the loop
\* goes to the no-data branch.
C6_NonPositivePriceRejected ==
    (Parsed /\ PriceParses(response) /\ PriceField(response).val <= 0)
        => (~success /\ pc = "nodata")

\* C7: the day low and day high shown for a successful cycle are those of that
\* cycle's response alone, 0 when the response has no such field or one that
\* does not convert.
C7_SnapshotFresh ==
    [][(pc = "reporting" /\ shown' # NoReport)
         => /\ shown'.low = FreshField(response, KeyLow)
            /\ shown'.high = FreshField(response, KeyHigh)]_vars

\* C8: whenever the price field of a non-empty response converts,
\* updateMarketPrice returns true whatever the two secondary fields are, and
\* each secondary field is stored or left alone by its own text only.
C8_SecondaryNeverFails ==
    /\ [](Parsed => (success <=> PriceParses(response)))
    /\ [][(pc = "polling" /\ success')
            => /\ bid_price' = KeptOrParsed(response', KeyLow, bid_price)
               /\ ask_price' = KeptOrParsed(response', KeyHigh, ask_price)]_vars
C8_Witness ==
    /\ pc = "reporting" /\ success
    /\ ExtractQuotedValue(response, KeyLow) = <<"x">>
    /\ ExtractQuotedValue(response, KeyHigh) = <<"3">>
    /\ ask_price = 300 /\ bid_price = 0

\* C9 as stated: every failure of the price field of a non-empty response,
\* missing or not convertible, is logged as ApiError when the text has a
\* marker and as UnexpectedFormat otherwise.
C9_Original ==
    (pc = "nodata" /\ response # <<>>)
        => diag = IF HasMarker(response) THEN "ApiError" ELSE "UnexpectedFormat"

\* C9 amended: when the price field of a non-empty response is missing or has
\* an empty value, the failure is logged as exactly one of ApiError (the text
\* has a marker) and UnexpectedFormat (it has none); when the field has a
\* non-empty value that does not convert, the failure is logged as a parse
\* failure and is given neither class.
C9_ClassifiedByText ==
    (pc = "nodata" /\ response # <<>>)
        => diag = IF ExtractQuotedValue(response, KeyPrice) # <<>>
                  THEN "ParseFailure"
                  ELSE IF HasMarker(response) THEN "ApiError"
                  ELSE "UnexpectedFormat"
C9_Witness ==
    /\ pc = "nodata" /\ diag = "ApiError"
    /\ Contains(response, MarkNote) /\ ~Contains(response, MarkError)

\* C10: on a no-data cycle the advisory is printed exactly when the number of
\* no-data cycles in a row is above the threshold.
C10_AdvisoryOnNoDataRun ==
    pc = "sleepNoData" => (advisory <=> noDataRun > AdvisoryThreshold)


\* pat stands in text at the 0-based position i
IsAt(text, pat, i) ==
    /\ i >= 0
    /\ i + Len(pat) <= Len(text)
    /\ \A j \in 1 .. Len(pat) : text[i + j] = pat[j]
\* i is the first position >= from where pat stands in text
IsFirstAt(text, pat, from, i) ==
    /\ i >= from
    /\ IsAt(text, pat, i)
    /\ \A h \in from .. i - 1 : ~IsAt(text, pat, h)
Positions(text) == 0 .. Len(text)
\* the first position >= from where pat stands in text, if there is one
Firsts(text, pat, from) ==
    { i \in Positions(text) : IsFirstAt(text, pat, from, i) }
\* the four lookups of the extractor: key token, colon, opening and closing quote
Lookups(text, key) ==
    LET token == Quote \o key \o Quote IN
    UNION { UNION { UNION { { <<k, c, a, b>> : b \in Firsts(text, Quote, a + 1) }
                            : a \in Firsts(text, Quote, c) }
                    : c \in Firsts(text, Colon, k + Len(token)) }
            : k \in Firsts(text, token, 0) }
\* the characters strictly between the positions a and b
Between(text, a, b) == [ i \in 1 .. (b - a - 1) |-> text[a + i + 1] ]
Extracted == ret # NoCall /\ ret.fn = "extract"
Price12345 == <<"1", "2", "3", ".", "4", "5">>

\* C11 as stated: on the example text the key "price" gives "123.45".
C11_Original ==
    (Extracted /\ call.text = QuoteExample /\ call.key = WordPrice)
        => ret.value = Price12345

\* C11 amended: on the example text the key "05. price" gives "123.45" (the
\* bare word "price" is not a quoted token of that text and gives NotFound); a
\* text that does not contain the quoted key gives NotFound; the empty text
\* gives NotFound for every key.
C11_ExtractExamples ==
    Extracted =>
        /\ (call.text = QuoteExample /\ call.key = KeyPrice) => ret.value = Price12345
        /\ (call.text = QuoteExample /\ call.key = WordPrice) => ret.value = <<>>
        /\ (\A i \in Positions(call.text) :
                ~IsAt(call.text, Quote \o call.key \o Quote, i)) => ret.value = <<>>
        /\ call.text = <<>> => ret.value = <<>>
C11_Witness ==
    /\ Extracted /\ call.text = QuoteExample /\ call.key = KeyPrice
    /\ ret.value = Price12345

C17_ExtractByLookups ==
    Extracted =>
        IF Lookups(call.text, call.key) = {}
        THEN ret.value = <<>>
        ELSE \A t \in Lookups(call.text, call.key) :
                /\ t[3] + 1 <= Len(call.text)
                /\ ret.value = Between(call.text, t[3], t[4])
C17_Witness ==
    /\ Extracted
    /\ call.text = <<"\"", "k", "\"", ":", "\"", "k", "\"">>
    /\ call.key = <<"k">>
    /\ ret.value = <<"k">>

\* the field key stands in resp with the empty value ""
PresentEmpty(resp, key) ==
    Contains(resp, Quote \o key \o Quote \o <<":", " ">> \o Quote \o Quote)

\* C18: a price field that is present with an empty value is handled as a
\* value that does not parse, not by the missing-field path.
C18_EmptyValueNotMissing ==
    (pc = "nodata" /\ PresentEmpty(response, KeyPrice)) => diag = "ParseFailure"

\* C19: a duration d gets one class, FAST below 100 ms, MODERATE from 100 ms
\* to below 500 ms, SLOW from 500 ms; the state after the report and the wait
\* are the same for every class: the inter-cycle sleep of the key.
C19_LatencyClass ==
    (ret # NoCall /\ ret.fn = "latency") =>
        LET a == ret.after IN
        /\ a.status \in {"FAST", "MODERATE", "SLOW"}
        /\ a.status = "FAST" <=> call.d < 100 * 1000
        /\ a.status = "MODERATE" <=> (100 * 1000 <= call.d /\ call.d < 500 * 1000)
        /\ a.status = "SLOW" <=> call.d >= 500 * 1000
        /\ a.next = "sleepOk"
        /\ a.wait = IF call.key = "demo" THEN 15 ELSE 12
C19_Witness ==
    /\ ret # NoCall /\ ret.fn = "latency"
    /\ call.d = 500000 /\ ret.after.status = "SLOW"


\* C13: no step changes cash or shares, and the ending balance line shows the
\* beginning balance.
C13_PortfolioUntouched ==
    /\ cash = 1000000
    /\ shares = 0
    /\ ctl = "exited" => endingBalance = 1000000
C13_Witness ==
    ctl = "exited" /\ endingBalance = 1000000 /\ cycle >= 2 /\ noDataRun >= 1

\* C14: a fetch begins only right after a test of running that found it true,
\* a sleep is left only to that test, at most one fetch begins after stop was
\* called, and none when stop was called during a sleep or during a fetch.
C14_CheckBeforeFetch ==
    /\ [](lateFetches <= 1)
    /\ [](stopAt \in SleepStates \cup {"polling"} => lateFetches = 0)
    /\ [][(pc' = "polling" /\ pc # "polling") => pc = "checked"]_vars
    /\ [][(pc' = "checked" /\ pc # "checked") => (pc = "check" /\ running)]_vars
    /\ [][(pc \in SleepStates /\ pc' # pc) => pc' = "check"]_vars
C14_Witness == pc = "stopped" /\ stopAt = "checked" /\ lateFetches = 1

\* C15: at most one fetch is outstanding, exactly while the loop thread is
\* inside httpGet; it has returned before the loop parses, reports, sleeps or
\* fetches again; no step of main starts or ends a fetch.
C15_OneFetchInFlight ==
    /\ [](inFlight <= 1)
    /\ [](inFlight = 1 <=> pc = "polling")
    /\ [][inFlight' > inFlight => (pc = "checked" /\ inFlight = 0)]_vars
    /\ [][inFlight' # inFlight => (ctl' = ctl /\ running' = running)]_vars
C15_Witness == pc = "polling" /\ inFlight = 1 /\ ctl = "join" /\ cycle >= 1

\* a step of the loop that prints a cycle report or the no-data notice
Emits == pc \in {"reporting", "nodata"} /\ pc' # pc

\* C16: the ending balance line is printed only when stop was called and the
\* loop has ended, and no report or notice is printed after it.
C16_FinalLineLast ==
    /\ [](endingBalance # NoBalance => (~running /\ pc = "stopped"))
    /\ [][endingBalance # NoBalance => ~Emits]_vars
C16_Witness ==
    endingBalance # NoBalance /\ ctl = "exited" /\ stopAt = "reporting"

\* C20: a successful cycle is followed by the inter-cycle sleep, 15 s with the
\* demo key and 12 s otherwise, a no-data cycle by the 5 s recovery sleep
\* whatever the key; the recovery sleep is shorter than both; each sleep runs
\* to its end and every fetch after the first follows exactly one sleep.
C20_WaitPolicy ==
    /\ [][(pc = "reporting" /\ pc' # pc)
            => (pc' = "sleepOk" /\ sleepLeft' = IF api_key = "demo" THEN 15 ELSE 12)]_vars
    /\ [][(pc = "nodata" /\ pc' # pc)
            => (pc' = "sleepNoData" /\ sleepLeft' = 5)]_vars
    /\ [][(pc \in SleepStates /\ pc' # pc) => sleepLeft = 0]_vars
    /\ [](pc = "sleepNoData" => sleepLeft < 12)
    /\ [](sleeps <= 1)
    /\ []((pc = "checked" /\ (cycle > 0 \/ noDataRun > 0)) => sleeps = 1)
C20_Witness ==
    pc = "sleepNoData" /\ sleepLeft = 5 /\ api_key = "demo" /\ cycle >= 1

====
